---- MODULE Spec2Model ----
(***************************************************************************)
(* talent-scout: a cache-backed fetch pipeline (src/utils.rs, src/main.rs) *)
(* that accumulates players into a PlayerDB (src/player.rs) and prints the *)
(* top scorers and the top assists.                                        *)
(*                                                                         *)
(* Two specifications share the module:                                    *)
(*   SpecDB  the PlayerDB API (add_player, index_players and the two       *)
(*           print calls) driven by arbitrary call sequences;              *)
(*   Spec    main() with fetch_data, the cache and the HTTP transport.     *)
(***************************************************************************)
EXTENDS Integers, Sequences, FiniteSets, TLC

VARIABLES
    players,        \* PlayerDB.players : HashMap<PlayerId, Player>
    top_scorers,    \* PlayerDB.top_scorers : Vec<PlayerId>
    top_assists,    \* PlayerDB.top_assists : Vec<PlayerId>
    stdout,         \* what the print_top_* calls have written, one entry per call
    panicked,       \* TRUE once an unwrap()/expect() has panicked
    dbpc,           \* position of the PlayerDB driver
    batch,          \* add_player calls since the last index_players
    access_level,   \* ACCOUNT_ACCESS_LEVEL of the run
    cache,          \* the files of the cache directory, by cache path
    now,            \* the clock, in seconds
    pc,             \* position of main
    exit_status,    \* "running", then how main ended: "ok", "error" or "panic"
    stderr,         \* the error main ended with, as reported on exit
    season,         \* main's `season`
    competitors,    \* main's `competitors.season_competitors`
    next,           \* index of the competitor the loop of main is at (1-based)
    fpc,            \* position of the fetch_data call in progress
    fargs,          \* its arguments: cache_path and the type T it decodes
    fdata,          \* its `data`, once request_data has returned it
    fresult,        \* what the last fetch_data call returned
    calls,          \* one record per fetch_data call of the run: what it did
    run,            \* the number of the run of the program, from 1
    first_run,      \* what the run before this one ended with
    latest          \* SpecDB: by id, the player last given to add_player

dbvars == <<dbpc, batch>>

playerdb == <<players, top_scorers, top_assists>>

mainvars == <<access_level, cache, now, pc, exit_status, stderr, season,
              competitors, next, fpc, fargs, fdata, fresult, calls, run,
              first_run>>

vars == <<players, top_scorers, top_assists, stdout, panicked, dbpc, batch,
          access_level, cache, now, pc, exit_status, stderr, season,
          competitors, next, fpc, fargs, fdata, fresult, calls, run,
          first_run, latest>>

----------------------------------------------------------------------------
(* Bounds of the model *)

\* player ids "0" .. NumPlayers-1 are offered to add_player
NumPlayers == 12

\* add_player calls between two index_players calls
MaxBatch == 2

\* runs of the program over the same cache directory
MaxRuns == 2

----------------------------------------------------------------------------
(* Strings and orderings *)

\* i.to_string(): the decimal digits of i, most significant first
RECURSIVE to_string(_)
to_string(i) ==
    IF i < 10 THEN <<i>> ELSE Append(to_string(i \div 10), i % 10)

\* Ord for integers (u16 / u32 values)
int_cmp(a, b) ==
    IF a < b THEN "Less" ELSE IF a > b THEN "Greater" ELSE "Equal"

\* Ord for String: lexicographic comparison of the bytes
RECURSIVE str_cmp(_, _)
str_cmp(a, b) ==
    IF a = <<>> THEN (IF b = <<>> THEN "Equal" ELSE "Less")
    ELSE IF b = <<>> THEN "Greater"
    ELSE IF Head(a) < Head(b) THEN "Less"
    ELSE IF Head(a) > Head(b) THEN "Greater"
    ELSE str_cmp(Tail(a), Tail(b))

\* Ordering::then_with
then_with(first, second) == IF first = "Equal" THEN second ELSE first

\* PlayerWithScore compared with the ids the wrong way round
PlayerWithScore_cmp_ids_descending(self, other) ==
    then_with(int_cmp(other.score, self.score), str_cmp(other.id, self.id))

\* impl Ord for PlayerWithScore
PlayerWithScore_cmp(self, other) ==
    then_with(int_cmp(other.score, self.score), str_cmp(self.id, other.id))

\* impl Ord for PlayerWithAssists
PlayerWithAssists_cmp(self, other) ==
    then_with(int_cmp(other.assists, self.assists), str_cmp(self.id, other.id))

\* T::cmp for the element type T of a BTreeSet<T>
Ord_cmp(T, self, other) ==
    IF T = "PlayerWithScore" THEN PlayerWithScore_cmp(self, other)
    ELSE PlayerWithAssists_cmp(self, other)

----------------------------------------------------------------------------
(* BTreeSet, kept as the sequence of its elements in iteration order *)

\* Vec::push in the place of BTreeSet::insert: the elements stay as they came
Vec_push(T, set, x) == Append(set, x)

\* BTreeSet::insert: no change when an equal element is present, otherwise
\* the element goes after every element that compares Less than it
BTreeSet_insert(T, set, x) ==
    IF \E i \in DOMAIN set : Ord_cmp(T, set[i], x) = "Equal"
    THEN set
    ELSE LET k == Cardinality({i \in DOMAIN set : Ord_cmp(T, set[i], x) = "Less"})
         IN  SubSeq(set, 1, k) \o <<x>> \o SubSeq(set, k + 1, Len(set))

\* Iterator::take(n)
take(s, n) == SubSeq(s, 1, IF Len(s) < n THEN Len(s) ELSE n)

\* the number of ids index_players keeps per list
TopLimit == 10

----------------------------------------------------------------------------
(* HashMap iteration order: unspecified, so index_players is run under      *)
(* several orders of the keys                                               *)

RECURSIVE sorted_ids(_)
sorted_ids(S) ==
    IF S = {} THEN <<>>
    ELSE LET m == CHOOSE x \in S : \A y \in S : str_cmp(x, y) # "Greater"
         IN  <<m>> \o sorted_ids(S \ {m})

reverse(s) == [i \in 1..Len(s) |-> s[Len(s) + 1 - i]]

rotate(s) == IF s = <<>> THEN s ELSE Append(Tail(s), Head(s))

hashmap_iter_orders(S) ==
    LET a == sorted_ids(S) IN {a, reverse(a), rotate(a)}

----------------------------------------------------------------------------
(* PlayerDB *)

Player(id, name, goals_scored, assists) ==
    [id |-> id, name |-> name, goals_scored |-> goals_scored, assists |-> assists]

\* HashMap::insert(key, value)
hashmap_insert(map, key, value) ==
    [k \in DOMAIN map \cup {key} |-> IF k = key THEN value ELSE map[k]]

\* player.rs 40-46: the BTreeSet<PlayerWithScore> after the loop over players
RECURSIVE collect_scores(_, _, _)
collect_scores(map, order, set) ==
    IF order = <<>> THEN set
    ELSE collect_scores(map, Tail(order),
            BTreeSet_insert("PlayerWithScore", set,
                [id |-> Head(order), score |-> map[Head(order)].goals_scored]))

\* player.rs 53-59: the BTreeSet<PlayerWithAssists> after the loop over players
RECURSIVE collect_assists(_, _, _)
collect_assists(map, order, set) ==
    IF order = <<>> THEN set
    ELSE collect_assists(map, Tail(order),
            BTreeSet_insert("PlayerWithAssists", set,
                [id |-> Head(order), assists |-> map[Head(order)].assists]))

ids_of(s) == [i \in 1..Len(s) |-> s[i].id]

\* the scorers without the take(10)
index_top_scorers_untruncated(map, order) ==
    ids_of(collect_scores(map, order, <<>>))

\* player.rs 49: top_scorers.into_iter().take(10).map(|p| p.id).collect()
index_top_scorers(map, order) ==
    ids_of(take(collect_scores(map, order, <<>>), TopLimit))

\* player.rs 60: top_assists.into_iter().take(10).map(|p| p.id).collect()
index_top_assists(map, order) ==
    ids_of(take(collect_assists(map, order, <<>>), TopLimit))

\* add_player keeping the player an id already has
add_player_keeping_first(map, player) ==
    IF player.id \in DOMAIN map THEN map ELSE hashmap_insert(map, player.id, player)

\* player.rs 32-34: PlayerDB::add_player
add_player(map, player) == hashmap_insert(map, player.id, player)

\* player.rs 76-94: the loop of print_top_scorers from entry `index` (1-based
\* here) on; a missing id makes players.get(id).unwrap() panic
RECURSIVE print_scorers_loop(_, _, _, _, _, _)
print_scorers_loop(list, map, index, position, prev_score, lines) ==
    IF index > Len(list) THEN [lines |-> lines, panic |-> FALSE]
    ELSE IF list[index] \notin DOMAIN map THEN [lines |-> lines, panic |-> TRUE]
    ELSE LET player == map[list[index]]
             prev1 == IF index = 1 THEN player.goals_scored ELSE prev_score
             drop == prev1 > player.goals_scored
             position1 == IF drop THEN position + 1 ELSE position
             prev2 == IF drop THEN player.goals_scored ELSE prev1
         IN  print_scorers_loop(list, map, index + 1, position1, prev2,
                 Append(lines, [position |-> position1, name |-> player.name,
                                value |-> player.goals_scored]))

\* player.rs 110-126: the loop of print_top_assists
RECURSIVE print_assists_loop(_, _, _, _, _, _)
print_assists_loop(list, map, index, position, prev_assists, lines) ==
    IF index > Len(list) THEN [lines |-> lines, panic |-> FALSE]
    ELSE IF list[index] \notin DOMAIN map THEN [lines |-> lines, panic |-> TRUE]
    ELSE LET player == map[list[index]]
             prev1 == IF index = 1 THEN player.assists ELSE prev_assists
             drop == prev1 > player.assists
             position1 == IF drop THEN position + 1 ELSE position
             prev2 == IF drop THEN player.assists ELSE prev1
         IN  print_assists_loop(list, map, index + 1, position1, prev2,
                 Append(lines, [position |-> position1, name |-> player.name,
                                value |-> player.assists]))

\* player.rs 64-95: what print_top_scorers writes, and whether it panics
print_top_scorers(list, map) ==
    IF list = <<>>
    THEN [title |-> "No top scorers found", lines |-> <<>>, panic |-> FALSE]
    ELSE LET r == print_scorers_loop(list, map, 1, 1, 0, <<>>)
         IN  [title |-> "Top Scorers:", lines |-> r.lines, panic |-> r.panic]

\* player.rs 98-127: what print_top_assists writes, and whether it panics
print_top_assists(list, map) ==
    IF list = <<>>
    THEN [title |-> "No top assists found", lines |-> <<>>, panic |-> FALSE]
    ELSE LET r == print_assists_loop(list, map, 1, 1, 0, <<>>)
         IN  [title |-> "Top Assists:", lines |-> r.lines, panic |-> r.panic]

----------------------------------------------------------------------------
(* The remote API, as main sees it *)

\* competitors the season_competitors endpoint may list
NumCompetitors == 2

\* chrono::NaiveDate
NaiveDate(year, month, day) == [year |-> year, month |-> month, day |-> day]

TargetSeason ==
    [id |-> "sr:season:105353", name |-> "Premier League 23/24",
     start_date |-> NaiveDate(2023, 8, 11), end_date |-> NaiveDate(2024, 5, 19)]
OtherSeason ==
    [id |-> "sr:season:93741", name |-> "Premier League 22/23",
     start_date |-> NaiveDate(2022, 8, 5), end_date |-> NaiveDate(2023, 5, 28)]

Payload(T, body) == [T |-> T, body |-> body]

\* ApiCompetitionSeasons.seasons, with and without the season main looks for
SeasonsPayloads ==
    {Payload("ApiCompetitionSeasons", <<OtherSeason, TargetSeason>>),
     Payload("ApiCompetitionSeasons", <<OtherSeason>>)}

\* ApiSeasonCompetitors.season_competitors: the first n competitors, or the
\* first competitor listed twice
CompetitorsPayloads ==
    {Payload("ApiSeasonCompetitors", [i \in 1..n |-> [id |-> i]]) :
        n \in 0..NumCompetitors}
    \cup {Payload("ApiSeasonCompetitors", <<[id |-> 1], [id |-> 1]>>)}

ApiGamePlayers(i, goals_scored, assists) ==
    [id |-> to_string(i), name |-> to_string(i),
     statistics |-> [goals_scored |-> goals_scored, assists |-> assists]]

\* ApiSeasonCompetitorStatistics.competitor.players of competitor c: no
\* players, or players c and c+1 (player c+1 is also listed by competitor c+1)
StatisticsPayloads(c) ==
    {Payload("ApiSeasonCompetitorStatistics", <<>>),
     Payload("ApiSeasonCompetitorStatistics",
             <<ApiGamePlayers(c, 2, 1), ApiGamePlayers(c + 1, 0, 3)>>),
     Payload("ApiSeasonCompetitorStatistics",
             <<ApiGamePlayers(c, 1, 0), ApiGamePlayers(c + 1, 1, 2)>>)}

\* main.rs 50, 72, 91: the cache paths
SeasonsPath == <<"competition_seasons">>
CompetitorsPath == <<"season_competitors">>
StatsPath(c) == <<"stats", c>>

CachePaths ==
    {SeasonsPath, CompetitorsPath} \cup {StatsPath(c) : c \in 1..NumCompetitors}

\* what the endpoint behind a cache path may answer with
PayloadsOf(path) ==
    IF path = SeasonsPath THEN SeasonsPayloads
    ELSE IF path = CompetitorsPath THEN CompetitorsPayloads
    ELSE StatisticsPayloads(path[2])

----------------------------------------------------------------------------
(* Files and JSON *)

NoValue == <<>>

\* a path of the cache directory: no file, a file that cannot be read, or a
\* file and its text
AbsentFile == [kind |-> "absent", text |-> NoValue]
UnreadableFile == [kind |-> "unreadable", text |-> NoValue]
TextFile(text) == [kind |-> "file", text |-> text]

\* text that is not JSON
Garbage == [json |-> FALSE, value |-> NoValue]

\* the byte '-' as the digits are written: three below '0'
Hyphen == 0 - 3

\* zero padding to a width, as %Y, %m and %d pad
RECURSIVE pad(_, _)
pad(digits, width) ==
    IF Len(digits) >= width THEN digits ELSE pad(<<0>> \o digits, width)

\* NaiveDate::format("%d-%m-%Y"): the day first
serialize_date_day_first(date) ==
    pad(to_string(date.day), 2) \o <<Hyphen>> \o pad(to_string(date.month), 2)
        \o <<Hyphen>> \o pad(to_string(date.year), 4)

\* utils.rs 11-17: date.format("%Y-%m-%d").to_string(), written as a string
serialize_date(date) ==
    pad(to_string(date.year), 4) \o <<Hyphen>> \o pad(to_string(date.month), 2)
        \o <<Hyphen>> \o pad(to_string(date.day), 2)

\* the number at the head of s: its digits, at most `width` of them; no digit
\* is an error
RECURSIVE scan_number(_, _, _, _)
scan_number(s, width, value, taken) ==
    IF s # <<>> /\ Head(s) \in 0..9 /\ taken < width
    THEN scan_number(Tail(s), width, 10 * value + Head(s), taken + 1)
    ELSE [ok |-> taken > 0, value |-> value, rest |-> s]

\* the days of a month of the proleptic Gregorian calendar
days_in_month(year, month) ==
    IF month = 2
    THEN IF year % 4 = 0 /\ (year % 100 # 0 \/ year % 400 = 0) THEN 29 ELSE 28
    ELSE IF month \in {4, 6, 9, 11} THEN 30 ELSE 31

\* what follows a number of a date: the hyphen, then the next number
after_hyphen(n) ==
    IF n.ok /\ n.rest # <<>> /\ Head(n.rest) = Hyphen THEN Tail(n.rest) ELSE <<>>

\* utils.rs 20-26: NaiveDate::parse_from_str(s, "%Y-%m-%d")
deserialize_date(s) ==
    LET y == scan_number(s, 4, 0, 0)
        m == scan_number(after_hyphen(y), 2, 0, 0)
        d == scan_number(after_hyphen(m), 2, 0, 0)
    IN  IF /\ y.ok /\ m.ok /\ d.ok
           /\ d.rest = <<>>
           /\ m.value \in 1..12
           /\ d.value \in 1..days_in_month(y.value, m.value)
        THEN [ok |-> TRUE, value |-> NaiveDate(y.value, m.value, d.value)]
        ELSE [ok |-> FALSE, value |-> NoValue]

\* a u16 as JSON writes it
serialize_u16(n) == to_string(n)

\* a JSON number read as a u16
deserialize_u16(s) ==
    LET n == scan_number(s, 5, 0, 0) IN
    IF n.ok /\ n.rest = <<>> /\ n.value < 65536
    THEN [ok |-> TRUE, value |-> n.value]
    ELSE [ok |-> FALSE, value |-> NoValue]

\* api.rs 56-127, derive(Serialize): one item of the list a payload carries
serialize_item(T, item) ==
    IF T = "ApiCompetitionSeasons"
    THEN [id |-> item.id, name |-> item.name,
          start_date |-> serialize_date(item.start_date),
          end_date |-> serialize_date(item.end_date)]
    ELSE IF T = "ApiSeasonCompetitorStatistics"
    THEN [id |-> item.id, name |-> item.name,
          statistics |->
              [goals_scored |-> serialize_u16(item.statistics.goals_scored),
               assists |-> serialize_u16(item.statistics.assists)]]
    ELSE item

\* api.rs 56-127, derive(Deserialize): one item of the list a payload carries
deserialize_item(T, item) ==
    IF T = "ApiCompetitionSeasons"
    THEN LET start_date == deserialize_date(item.start_date)
             end_date == deserialize_date(item.end_date)
         IN  IF start_date.ok /\ end_date.ok
             THEN [ok |-> TRUE,
                   value |-> [id |-> item.id, name |-> item.name,
                              start_date |-> start_date.value,
                              end_date |-> end_date.value]]
             ELSE [ok |-> FALSE, value |-> NoValue]
    ELSE IF T = "ApiSeasonCompetitorStatistics"
    THEN LET goals_scored == deserialize_u16(item.statistics.goals_scored)
             assists == deserialize_u16(item.statistics.assists)
         IN  IF goals_scored.ok /\ assists.ok
             THEN [ok |-> TRUE,
                   value |-> [id |-> item.id, name |-> item.name,
                              statistics |->
                                  [goals_scored |-> goals_scored.value,
                                   assists |-> assists.value]]]
             ELSE [ok |-> FALSE, value |-> NoValue]
    ELSE [ok |-> TRUE, value |-> item]

\* serde_json::to_string_pretty(data)
to_string_pretty(data) ==
    [json |-> TRUE,
     value |-> [T |-> data.T,
                body |-> [i \in DOMAIN data.body |->
                             serialize_item(data.T, data.body[i])]]]

\* serde_json::from_str::<T>(text) and Response::json::<T>()
from_str(T, text) ==
    IF text.json /\ text.value.T = T
    THEN LET items == [i \in DOMAIN text.value.body |->
                          deserialize_item(T, text.value.body[i])]
         IN  IF \A i \in DOMAIN items : items[i].ok
             THEN [ok |-> TRUE,
                   value |-> [T |-> T,
                              body |-> [i \in DOMAIN items |-> items[i].value]]]
             ELSE [ok |-> FALSE, value |-> NoValue]
    ELSE [ok |-> FALSE, value |-> NoValue]

FilesOf(path) ==
    {AbsentFile, UnreadableFile, TextFile(Garbage)}
        \cup {TextFile(to_string_pretty(d)) : d \in PayloadsOf(path)}

Ok(value) == [ok |-> TRUE, value |-> value, err |-> ""]
Err(msg) == [ok |-> FALSE, value |-> NoValue, err |-> msg]

\* read_from_cache that never finds the file
read_from_cache_always_miss(files, T, cache_path) == Ok(<<>>)

\* read_from_cache that takes a file it cannot read or decode for no file
read_from_cache_lenient(files, T, cache_path) ==
    LET file == files[cache_path] IN
    IF file.kind = "file" /\ from_str(T, file.text).ok
    THEN Ok(<<from_str(T, file.text).value>>)
    ELSE Ok(<<>>)

\* utils.rs 29-49: read_from_cache -> Result<Option<T>>; value is
\* <<data>> for Some(data) and <<>> for None
read_from_cache(files, T, cache_path) ==
    LET file == files[cache_path] IN
    IF file.kind # "absent"
    THEN IF file.kind = "unreadable"
         THEN Err("Failed to read the cache file")
         ELSE LET data == from_str(T, file.text) IN
              IF data.ok THEN Ok(<<data.value>>)
              ELSE Err("Failed to deserialize JSON from cache")
    ELSE Ok(<<>>)

\* write_to_cache reporting success without a file being written
write_to_cache_discarding(files, cache_path, data, disk) ==
    IF disk = "written"
    THEN [files |-> files, result |-> Ok(NoValue)]
    ELSE [files |-> files, result |-> Err("Failed to write the cache file")]

\* utils.rs 52-62: write_to_cache under the file system's answer `disk`:
\* the write succeeds, fails leaving the path as it was, or fails after the
\* file was created and truncated.  The payload types always serialize.
write_to_cache(files, cache_path, data, disk) ==
    IF disk = "written"
    THEN [files |-> [files EXCEPT ![cache_path] = TextFile(to_string_pretty(data))],
          result |-> Ok(NoValue)]
    ELSE IF disk = "failed"
    THEN [files |-> files, result |-> Err("Failed to write the cache file")]
    ELSE [files |-> [files EXCEPT ![cache_path] = TextFile(Garbage)],
          result |-> Err("Failed to write the cache file")]

DiskAnswers == {"written", "failed", "failed_truncated"}

----------------------------------------------------------------------------
(* request_data *)

\* utils.rs 84: Duration::from_secs(2)
TrialDelaySecs == 2

\* the sleep with the test of the access level inverted
trial_delay_inverted(level) == IF level # "trial" THEN TrialDelaySecs ELSE 0

\* utils.rs 82-85: the sleep before the request is sent
trial_delay(level) == IF level = "trial" THEN TrialDelaySecs ELSE 0

\* StatusCode::is_success
is_success(status) == 200 <= status /\ status <= 299

\* the transport fails: there is no response
NoResponse == [sent |-> FALSE, status |-> 0, body |-> Garbage]

\* what the transport may answer to the request behind cache_path: no
\* response at all, or a status and a body
Responses(cache_path) ==
    {NoResponse}
        \cup {[sent |-> TRUE, status |-> st, body |-> b] :
                st \in {200, 404},
                b \in {Garbage} \cup {to_string_pretty(d) : d \in PayloadsOf(cache_path)}}

\* request_data without the test of the response status
request_data_ignoring_status(T, resp) ==
    IF ~resp.sent THEN Err("Failed to send request")
    ELSE LET data == from_str(T, resp.body) IN
         IF data.ok THEN Ok(data.value)
         ELSE Err("Failed to parse JSON response")

\* utils.rs 87-98: the result of request_data given the transport's answer
request_data(T, resp) ==
    IF ~resp.sent THEN Err("Failed to send request")
    ELSE IF ~is_success(resp.status) THEN Err("Request failed with status")
    ELSE LET data == from_str(T, resp.body) IN
         IF data.ok THEN Ok(data.value)
         ELSE Err("Failed to parse JSON response")

----------------------------------------------------------------------------
(* fetch_data, step by step.  `calls` records each call: the file found at *)
(* its cache path when it started, its sleeps, its requests and the        *)
(* transport's answer, its cache writes and the file system's answer.      *)

NewCall(cache_path, file, t) ==
    [cache_path |-> cache_path, file |-> file, started |-> t, slept |-> 0,
     requests |-> 0, sent_at |-> -1, response |-> NoResponse,
     writes |-> 0, disk |-> "", returned |-> FALSE, result |-> Err("")]

\* the record of the call in progress, updated
Logged(field, v) ==
    [calls EXCEPT ![Len(calls)] = [calls[Len(calls)] EXCEPT ![field] = v]]

Returned(log, result) ==
    [log EXCEPT ![Len(log)] =
        [log[Len(log)] EXCEPT !.returned = TRUE, !.result = result]]

\* a call of fetch_data::<T>(.., cache_path, ..) by main
CallFetch(T, cache_path) ==
    /\ fpc' = "read_from_cache"
    /\ fargs' = [T |-> T, cache_path |-> cache_path]
    /\ calls' = Append(calls, NewCall(cache_path, cache[cache_path], now))
    /\ UNCHANGED <<fdata, fresult, cache, now>>

\* utils.rs 116-118
FetchReadCache ==
    /\ fpc = "read_from_cache"
    /\ LET r == read_from_cache(cache, fargs.T, fargs.cache_path) IN
          IF ~r.ok
          THEN /\ fresult' = r
               /\ fpc' = "returned"
               /\ calls' = Returned(calls, r)
          ELSE IF r.value # <<>>
          THEN /\ fresult' = Ok(r.value[1])
               /\ fpc' = "returned"
               /\ calls' = Returned(calls, Ok(r.value[1]))
          ELSE /\ fpc' = "request_data"
               /\ UNCHANGED <<fresult, calls>>
    /\ UNCHANGED <<access_level, cache, now, pc, exit_status, stderr, season,
                   competitors, next, fargs, fdata>>
    /\ UNCHANGED <<players, top_scorers, top_assists, stdout, panicked, dbpc, batch>>
    /\ UNCHANGED <<run, first_run, latest>>

\* utils.rs 75-85: request_data up to the end of the sleep.  The clock counts
\* the sleeps only: any other passage of time widens the gaps between requests
RequestSleep ==
    /\ fpc = "request_data"
    /\ now' = now + trial_delay(access_level)
    /\ calls' = Logged("slept", calls[Len(calls)].slept + trial_delay(access_level))
    /\ fpc' = "send"
    /\ UNCHANGED <<access_level, cache, pc, exit_status, stderr, season,
                   competitors, next, fargs, fdata, fresult>>
    /\ UNCHANGED <<players, top_scorers, top_assists, stdout, panicked, dbpc, batch>>
    /\ UNCHANGED <<run, first_run, latest>>

\* utils.rs 87-98 and 121: the request is sent and request_data returns
RequestSend ==
    /\ fpc = "send"
    /\ \E resp \in Responses(fargs.cache_path) :
          LET r == request_data(fargs.T, resp)
              sent == [Logged("requests", calls[Len(calls)].requests + 1)
                          EXCEPT ![Len(calls)].sent_at = now,
                                 ![Len(calls)].response = resp]
          IN  IF r.ok
              THEN /\ fdata' = r.value
                   /\ fpc' = "write_to_cache"
                   /\ calls' = sent
                   /\ UNCHANGED fresult
              ELSE /\ fresult' = r
                   /\ fpc' = "returned"
                   /\ calls' = Returned(sent, r)
                   /\ UNCHANGED fdata
    /\ UNCHANGED <<access_level, cache, now, pc, exit_status, stderr, season,
                   competitors, next, fargs>>
    /\ UNCHANGED <<players, top_scorers, top_assists, stdout, panicked, dbpc, batch>>
    /\ UNCHANGED <<run, first_run, latest>>

\* fetch_data that drops the result of write_to_cache
after_write_ignoring_error(written, data) == Ok(data)

\* utils.rs 124-126: what fetch_data returns after write_to_cache
after_write(written, data) == IF written.ok THEN Ok(data) ELSE written

\* utils.rs 124-126
FetchWriteCache ==
    /\ fpc = "write_to_cache"
    /\ \E disk \in DiskAnswers :
          LET w == write_to_cache(cache, fargs.cache_path, fdata, disk)
              r == after_write(w.result, fdata)
          IN  /\ cache' = w.files
              /\ fresult' = r
              /\ calls' = Returned(
                              [Logged("writes", calls[Len(calls)].writes + 1)
                                  EXCEPT ![Len(calls)].disk = disk], r)
    /\ fpc' = "returned"
    /\ UNCHANGED <<access_level, now, pc, exit_status, stderr, season,
                   competitors, next, fargs, fdata>>
    /\ UNCHANGED <<players, top_scorers, top_assists, stdout, panicked, dbpc, batch>>
    /\ UNCHANGED <<run, first_run, latest>>

----------------------------------------------------------------------------
(* main *)

\* the lookup of the season falling back on the first season listed
RECURSIVE find_season_or_first(_)
find_season_or_first(seasons) ==
    IF seasons = <<>> THEN <<>>
    ELSE IF \E i \in DOMAIN seasons : seasons[i].name = "Premier League 23/24"
    THEN <<seasons[CHOOSE i \in DOMAIN seasons :
                      seasons[i].name = "Premier League 23/24"]>>
    ELSE <<Head(seasons)>>

\* main.rs 65-69: competition_seasons.seasons.iter().find(..); <<s>> for
\* Some(s), <<>> for None
RECURSIVE find_season(_)
find_season(seasons) ==
    IF seasons = <<>> THEN <<>>
    ELSE IF Head(seasons).name = "Premier League 23/24" THEN <<Head(seasons)>>
    ELSE find_season(Tail(seasons))

\* main.rs 111-126: the loop over data.competitor.players
RECURSIVE add_players(_, _)
add_players(map, list) ==
    IF list = <<>> THEN map
    ELSE LET player == Head(list) IN
         IF player.statistics.goals_scored = 0
         THEN add_players(map, Tail(list))
         ELSE add_players(
                  add_player(map, Player(player.id, player.name,
                                         player.statistics.goals_scored,
                                         player.statistics.assists)),
                  Tail(list))

\* main returns Err(err): the process reports it and exits non-zero
Abort(err) ==
    /\ pc' = "exit"
    /\ exit_status' = "error"
    /\ stderr' = err

\* main.rs 27-47: the client, the PlayerDB, the endpoints, the environment
\* and the cache directory; then the call of main.rs 53
MainSetup ==
    /\ pc = "start"
    /\ \E setup \in {"ok", "bad API_BASE_URL", "no API_KEY", "no cache directory"} :
          \* a later run has the configuration of the first, which passed
          /\ run > 1 => setup = "ok"
          /\ IF setup = "ok"
             THEN /\ pc' = "await_seasons"
                  /\ CallFetch("ApiCompetitionSeasons", SeasonsPath)
                  /\ UNCHANGED <<exit_status, stderr>>
             ELSE /\ Abort(setup)
                  /\ UNCHANGED <<fpc, fargs, fdata, fresult, calls, cache, now>>
    /\ UNCHANGED <<access_level, season, competitors, next>>
    /\ UNCHANGED <<players, top_scorers, top_assists, stdout, panicked, dbpc, batch>>
    /\ UNCHANGED <<run, first_run, latest>>

\* main.rs 62-75: the seasons are back; the season is looked up and the
\* competitors are asked for
MainSeasons ==
    /\ pc = "await_seasons"
    /\ fpc = "returned"
    /\ IF ~fresult.ok
       THEN /\ Abort("Failed to fetch competition seasons")
            /\ fpc' = "idle"
            /\ UNCHANGED <<season, panicked, fargs, fdata, fresult, calls, cache, now>>
       ELSE LET found == find_season(fresult.value.body) IN
            IF found = <<>>
            THEN /\ pc' = "exit"
                 /\ exit_status' = "panic"
                 /\ stderr' = "Season not found"
                 /\ panicked' = TRUE
                 /\ fpc' = "idle"
                 /\ UNCHANGED <<season, fargs, fdata, fresult, calls, cache, now>>
            ELSE /\ season' = found[1].id
                 /\ pc' = "await_competitors"
                 /\ CallFetch("ApiSeasonCompetitors", CompetitorsPath)
                 /\ UNCHANGED <<exit_status, stderr, panicked>>
    /\ UNCHANGED <<access_level, competitors, next>>
    /\ UNCHANGED <<players, top_scorers, top_assists, stdout, dbpc, batch>>
    /\ UNCHANGED <<run, first_run, latest>>

\* main.rs 84-87: the competitors are back; the loop starts
MainCompetitors ==
    /\ pc = "await_competitors"
    /\ fpc = "returned"
    /\ fpc' = "idle"
    /\ IF ~fresult.ok
       THEN /\ Abort("Failed to fetch season competitors")
            /\ UNCHANGED <<competitors, next>>
       ELSE /\ competitors' = fresult.value.body
            /\ next' = 1
            /\ pc' = "loop"
            /\ UNCHANGED <<exit_status, stderr>>
    /\ UNCHANGED <<access_level, cache, now, season, fargs, fdata, fresult, calls>>
    /\ UNCHANGED <<players, top_scorers, top_assists, stdout, panicked, dbpc, batch>>
    /\ UNCHANGED <<run, first_run, latest>>

\* main.rs 87-103: the next competitor's statistics are asked for, or the
\* loop ends
MainLoop ==
    /\ pc = "loop"
    /\ IF next <= Len(competitors)
       THEN /\ pc' = "await_stats"
            /\ CallFetch("ApiSeasonCompetitorStatistics",
                         StatsPath(competitors[next].id))
       ELSE /\ pc' = "print_top_scorers"
            /\ UNCHANGED <<fpc, fargs, fdata, fresult, calls, cache, now>>
    /\ UNCHANGED <<access_level, exit_status, stderr, season, competitors, next>>
    /\ UNCHANGED <<players, top_scorers, top_assists, stdout, panicked, dbpc, batch>>
    /\ UNCHANGED <<run, first_run, latest>>

\* player.rs 11-18: the PlayerDB
PlayerDB(map, scorers, assists) ==
    [players |-> map, top_scorers |-> scorers, top_assists |-> assists]

\* the players of the statistics added after the index was built
handle_statistics_index_first(db, list, order) ==
    IF list = <<>> THEN db
    ELSE LET before == SelectSeq(order, LAMBDA id : id \in DOMAIN db.players) IN
         PlayerDB(add_players(db.players, list),
                  index_top_scorers(db.players, before),
                  index_top_assists(db.players, before))

\* main.rs 104-130: what the statistics of a competitor do to the PlayerDB:
\* nothing when the competitor lists no players; otherwise the players are
\* added and the index is built
handle_statistics(db, list, order) ==
    IF list = <<>> THEN db
    ELSE LET map == add_players(db.players, list) IN
         PlayerDB(map, index_top_scorers(map, order),
                  index_top_assists(map, order))

\* main.rs 103-135: the statistics of a competitor are back
MainStatistics ==
    /\ pc = "await_stats"
    /\ fpc = "returned"
    /\ fpc' = "idle"
    /\ IF fresult.ok
       THEN /\ \E order \in hashmap_iter_orders(
                              DOMAIN add_players(players, fresult.value.body)) :
                  LET db == handle_statistics(
                                PlayerDB(players, top_scorers, top_assists),
                                fresult.value.body, order)
                  IN  /\ players' = db.players
                      /\ top_scorers' = db.top_scorers
                      /\ top_assists' = db.top_assists
            /\ next' = next + 1
            /\ pc' = "loop"
            /\ UNCHANGED <<exit_status, stderr>>
       ELSE /\ Abort(fresult.err)
            /\ UNCHANGED <<players, top_scorers, top_assists, next>>
    /\ UNCHANGED <<access_level, cache, now, season, competitors, fargs, fdata,
                   fresult, calls>>
    /\ UNCHANGED <<stdout, panicked, dbpc, batch>>
    /\ UNCHANGED <<run, first_run, latest>>

\* main.rs 138
MainPrintTopScorers ==
    /\ pc = "print_top_scorers"
    /\ LET out == print_top_scorers(top_scorers, players) IN
          /\ stdout' = Append(stdout, [title |-> out.title, lines |-> out.lines])
          /\ panicked' = out.panic
          /\ IF out.panic
             THEN /\ pc' = "exit"
                  /\ exit_status' = "panic"
             ELSE /\ pc' = "print_top_assists"
                  /\ UNCHANGED exit_status
    /\ UNCHANGED <<access_level, cache, now, stderr, season, competitors, next,
                   fpc, fargs, fdata, fresult, calls>>
    /\ UNCHANGED <<players, top_scorers, top_assists, dbpc, batch>>
    /\ UNCHANGED <<run, first_run, latest>>

\* main.rs 139-141
MainPrintTopAssists ==
    /\ pc = "print_top_assists"
    /\ LET out == print_top_assists(top_assists, players) IN
          /\ stdout' = Append(stdout, [title |-> out.title, lines |-> out.lines])
          /\ panicked' = out.panic
          /\ exit_status' = IF out.panic THEN "panic" ELSE "ok"
    /\ pc' = "exit"
    /\ UNCHANGED <<access_level, cache, now, stderr, season, competitors, next,
                   fpc, fargs, fdata, fresult, calls>>
    /\ UNCHANGED <<players, top_scorers, top_assists, dbpc, batch>>
    /\ UNCHANGED <<run, first_run, latest>>

\* no run has ended yet
NoRun == [top_scorers |-> <<>>, top_assists |-> <<>>, stdout |-> <<>>,
          requests |-> 0, written |-> {}]

\* main.rs 25-29: the program is started again after a run that succeeded,
\* with the access level and the cache directory as that run left them; the
\* PlayerDB and everything else of a process start afresh
MainRestart ==
    /\ pc = "exit"
    /\ exit_status = "ok"
    /\ run < MaxRuns
    /\ run' = run + 1
    /\ first_run' = [top_scorers |-> top_scorers, top_assists |-> top_assists,
                     stdout |-> stdout,
                     requests |-> Cardinality({i \in DOMAIN calls :
                                                 calls[i].requests > 0}),
                     written |-> {calls[i].cache_path :
                                     i \in {j \in DOMAIN calls :
                                               calls[j].disk = "written"}}]
    /\ pc' = "start"
    /\ exit_status' = "running"
    /\ season' = ""
    /\ competitors' = <<>>
    /\ next' = 0
    /\ fpc' = "idle"
    /\ fargs' = [T |-> "", cache_path |-> <<>>]
    /\ fdata' = NoValue
    /\ fresult' = Err("")
    /\ calls' = <<>>
    /\ players' = <<>>
    /\ top_scorers' = <<>>
    /\ top_assists' = <<>>
    /\ stdout' = <<>>
    /\ UNCHANGED <<access_level, cache, now, stderr, panicked, dbpc, batch,
                   latest>>

\* the environment of a run: the access level and the cache directory
Init ==
    /\ access_level \in {"trial", "production"}
    /\ cache \in [CachePaths -> UNION {FilesOf(path) : path \in CachePaths}]
    /\ \A path \in CachePaths : cache[path] \in FilesOf(path)
    /\ now = 0
    /\ pc = "start"
    /\ exit_status = "running"
    /\ stderr = ""
    /\ season = ""
    /\ competitors = <<>>
    /\ next = 0
    /\ fpc = "idle"
    /\ fargs = [T |-> "", cache_path |-> <<>>]
    /\ fdata = NoValue
    /\ fresult = Err("")
    /\ calls = <<>>
    /\ run = 1
    /\ first_run = NoRun
    /\ latest = <<>>
    /\ players = <<>>
    /\ top_scorers = <<>>
    /\ top_assists = <<>>
    /\ stdout = <<>>
    /\ panicked = FALSE
    /\ dbpc = "unused"
    /\ batch = 0

Next ==
    \/ MainSetup
    \/ FetchReadCache
    \/ RequestSleep
    \/ RequestSend
    \/ FetchWriteCache
    \/ MainSeasons
    \/ MainCompetitors
    \/ MainLoop
    \/ MainStatistics
    \/ MainPrintTopScorers
    \/ MainPrintTopAssists
    \/ MainRestart

Spec == Init /\ [][Next]_vars

----------------------------------------------------------------------------
(* SpecDB: the PlayerDB driven call by call.  New ids enter in the order    *)
(* "0", "1", ... (as in tests::test_player_db_limit); an id already present *)
(* may be added again, which replaces it.  The statistics offered keep the  *)
(* collection ordered: a player never has better statistics than the player *)
(* numbered before it.                                                      *)

\* the statistics a player is added with, best scorers first
StatLevels == <<[goals_scored |-> 3, assists |-> 0],
                [goals_scored |-> 2, assists |-> 2],
                [goals_scored |-> 1, assists |-> 1]>>

\* the level of the statistics of player `id` in `map`
level_of(map, id) ==
    CHOOSE l \in DOMAIN StatLevels :
        /\ StatLevels[l].goals_scored = map[id].goals_scored
        /\ StatLevels[l].assists = map[id].assists

\* player.rs 23-29: PlayerDB::new
InitDB ==
    /\ players = <<>>
    /\ top_scorers = <<>>
    /\ top_assists = <<>>
    /\ stdout = <<>>
    /\ panicked = FALSE
    /\ dbpc = "build"
    /\ batch = 0
    /\ access_level = "trial"
    /\ cache = [path \in CachePaths |-> AbsentFile]
    /\ now = 0
    /\ pc = "unused"
    /\ exit_status = "running"
    /\ stderr = ""
    /\ season = ""
    /\ competitors = <<>>
    /\ next = 0
    /\ fpc = "idle"
    /\ fargs = [T |-> "", cache_path |-> <<>>]
    /\ fdata = NoValue
    /\ fresult = Err("")
    /\ calls = <<>>
    /\ run = 1
    /\ first_run = NoRun
    /\ latest = <<>>

\* the collections the driver builds
ordered_levels(map) ==
    \A i \in 1..(Cardinality(DOMAIN map) - 1) :
        level_of(map, to_string(i - 1)) <= level_of(map, to_string(i))

DbAddPlayer ==
    /\ dbpc = "build"
    /\ batch < MaxBatch
    /\ \E i \in 0..(NumPlayers - 1), l \in DOMAIN StatLevels :
          LET id == to_string(i)
              st == StatLevels[l]
              new == add_player(players,
                         Player(id, id, st.goals_scored, st.assists))
          IN
          /\ i <= Cardinality(DOMAIN players)
          /\ ordered_levels(new)
          /\ players' = new
          /\ latest' = [k \in DOMAIN latest \cup {id} |->
                           IF k = id
                           THEN Player(id, id, st.goals_scored, st.assists)
                           ELSE latest[k]]
    /\ batch' = batch + 1
    /\ UNCHANGED <<top_scorers, top_assists, stdout, panicked, dbpc>>
    /\ UNCHANGED mainvars

\* index_players extending the lists it should replace
DbIndexPlayers_extending ==
    /\ dbpc = "build"
    /\ \E order \in hashmap_iter_orders(DOMAIN players) :
          /\ top_scorers' = top_scorers \o index_top_scorers(players, order)
          /\ top_assists' = top_assists \o index_top_assists(players, order)
    /\ batch' = 0
    /\ UNCHANGED <<players, stdout, panicked, dbpc>>
    /\ UNCHANGED mainvars
    /\ UNCHANGED latest

\* player.rs 37-61: PlayerDB::index_players
DbIndexPlayers ==
    /\ dbpc = "build"
    /\ \E order \in hashmap_iter_orders(DOMAIN players) :
          /\ top_scorers' = index_top_scorers(players, order)
          /\ top_assists' = index_top_assists(players, order)
    /\ batch' = 0
    /\ UNCHANGED <<players, stdout, panicked, dbpc>>
    /\ UNCHANGED mainvars
    /\ UNCHANGED latest

DbPrintTopScorers ==
    /\ dbpc = "build"
    /\ LET out == print_top_scorers(top_scorers, players) IN
          /\ stdout' = Append(stdout, [title |-> out.title, lines |-> out.lines])
          /\ panicked' = out.panic
          /\ dbpc' = IF out.panic THEN "done" ELSE "printed_scorers"
    /\ UNCHANGED <<players, top_scorers, top_assists, batch>>
    /\ UNCHANGED mainvars
    /\ UNCHANGED latest

DbPrintTopAssists ==
    /\ dbpc = "printed_scorers"
    /\ LET out == print_top_assists(top_assists, players) IN
          /\ stdout' = Append(stdout, [title |-> out.title, lines |-> out.lines])
          /\ panicked' = out.panic
          /\ dbpc' = "done"
    /\ UNCHANGED <<players, top_scorers, top_assists, batch>>
    /\ UNCHANGED mainvars
    /\ UNCHANGED latest

NextDB ==
    \/ DbAddPlayer
    \/ DbIndexPlayers
    \/ DbPrintTopScorers
    \/ DbPrintTopAssists

SpecDB == InitDB /\ [][NextDB]_vars

----------------------------------------------------------------------------
(* Properties of the PlayerDB, checked under SpecDB *)

Range(s) == {s[i] : i \in DOMAIN s}

Min(a, b) == IF a < b THEN a ELSE b

\* index_players ran after the last add_player
IndexFresh == batch = 0

goals_of(id) == players[id].goals_scored
assists_of(id) == players[id].assists

\* a is lexicographically before b
LexBefore(a, b) ==
    \E k \in 1..(Len(a) + 1) :
        /\ \A j \in 1..(k - 1) : j <= Len(b) /\ a[j] = b[j]
        /\ \/ k = Len(a) + 1 /\ Len(b) >= k
           \/ k <= Len(a) /\ k <= Len(b) /\ a[k] < b[k]

\* every player whose metric equals that of the entry at the cutoff position
\* is in the list
TiesAtCutoffIncluded(list, metric(_)) ==
    Len(list) >= TopLimit =>
        \A id \in DOMAIN players :
            metric(id) = metric(list[TopLimit]) => id \in Range(list)

\* C1: after index_players, each ranked list contains every player whose
\* metric value equals the value of the entry at position 10, so players
\* beyond the 10th that are tied with the 10th are all included.
C1_TiesAtCutoffIncluded ==
    IndexFresh =>
        /\ TiesAtCutoffIncluded(top_scorers, goals_of)
        /\ TiesAtCutoffIncluded(top_assists, assists_of)

\* the rank numbers are competition ranks: 1 plus the number of listed
\* entries with a strictly greater value
CompetitionRanks(lines) ==
    \A i \in DOMAIN lines :
        lines[i].position =
            1 + Cardinality({j \in DOMAIN lines : lines[j].value > lines[i].value})

\* C3: the rank numbers printed for a ranked list are competition ranks
\* (1,1,3 and not 1,1,2): each entry's rank is 1 plus the number of listed
\* entries with a strictly greater metric value.
C3_CompetitionRanking ==
    IndexFresh => \A k \in DOMAIN stdout : CompetitionRanks(stdout[k].lines)

\* the list is sorted by the metric descending, ties by id ascending
SortedByMetricThenId(list, metric(_)) ==
    \A i, j \in DOMAIN list :
        i < j =>
            \/ metric(list[i]) > metric(list[j])
            \/ /\ metric(list[i]) = metric(list[j])
               /\ LexBefore(list[i], list[j])

\* C5: each ranked list produced by index_players is sorted by its metric
\* descending, and listed ids with equal metric value are in ascending
\* lexicographic order of the ids.
C5_SortedDescendingTiesById ==
    IndexFresh =>
        /\ SortedByMetricThenId(top_scorers, goals_of)
        /\ SortedByMetricThenId(top_assists, assists_of)

\* the index was computed for more than one player, with a tie in it
C5_Witness ==
    /\ IndexFresh
    /\ Len(top_scorers) = TopLimit
    /\ \E i, j \in DOMAIN top_scorers :
          /\ i < j
          /\ goals_of(top_scorers[i]) = goals_of(top_scorers[j])
          /\ Len(top_scorers[i]) > Len(top_scorers[j])
    /\ \E i, j \in DOMAIN top_assists :
          i < j /\ assists_of(top_assists[i]) > assists_of(top_assists[j])

\* some value is held both by one of the 10 best and by a player after them
TieStraddlesCutoff(metric(_)) ==
    \E v \in {metric(id) : id \in DOMAIN players} :
        /\ Cardinality({id \in DOMAIN players : metric(id) > v}) < TopLimit
        /\ Cardinality({id \in DOMAIN players : metric(id) >= v}) > TopLimit

\* the list has min(10, number of players) ids, the players with the
\* highest values
TopOfCollection(list, metric(_)) ==
    /\ Len(list) = Min(TopLimit, Cardinality(DOMAIN players))
    /\ \A id \in Range(list) : id \in DOMAIN players
    /\ \A in \in Range(list), out \in DOMAIN players \ Range(list) :
          metric(in) >= metric(out)

\* C6: when no tie straddles the cutoff, each ranked list has exactly
\* min(10, number of players) ids (none for an empty collection), and every
\* listed player's metric is at least every unlisted player's metric.
C6_TopTenWithoutTies ==
    IndexFresh =>
        /\ ~TieStraddlesCutoff(goals_of) => TopOfCollection(top_scorers, goals_of)
        /\ ~TieStraddlesCutoff(assists_of) => TopOfCollection(top_assists, assists_of)

\* more than 10 players were indexed and no tie straddles the cutoff of the
\* scorers
C6_Witness ==
    /\ IndexFresh
    /\ Cardinality(DOMAIN players) > TopLimit
    /\ ~TieStraddlesCutoff(goals_of)
    /\ Len(top_scorers) = TopLimit

----------------------------------------------------------------------------
(* Properties of main and fetch_data, checked under Spec *)

IsStatsCall(call) == call.cache_path[1] = "stats"

\* C2: when fetching the statistics of one competitor fails, the run does
\* not abort: the competitor is skipped, the remaining competitors are
\* fetched, and the leaderboards are printed.
C2_FailedCompetitorIsSkipped ==
    (/\ pc = "exit"
     /\ \E i \in DOMAIN calls : IsStatsCall(calls[i]) /\ ~calls[i].result.ok)
    => /\ exit_status = "ok"
       /\ Len(stdout) = 2
       /\ Cardinality({i \in DOMAIN calls : IsStatsCall(calls[i])})
              = Len(competitors)

\* the payloads of the endpoint behind the path that the text is the JSON of
PayloadsWritten(text, path) ==
    IF text.json
    THEN {d \in PayloadsOf(path) : to_string_pretty(d) = text}
    ELSE {}

\* the call found a file holding a payload of its endpoint at its cache path
WellFormedFile(call) ==
    /\ call.file.kind = "file"
    /\ PayloadsWritten(call.file.text, call.cache_path) # {}

\* the call is still reading the cache
ReadingCache(i) == i = Len(calls) /\ fpc = "read_from_cache"

\* C4: if a well-formed cache entry exists for the cache key, fetch_data
\* returns the cached value, makes no network call, does not sleep and does
\* not write the cache.
C4_CacheHitNoNetwork ==
    \A i \in DOMAIN calls :
        WellFormedFile(calls[i]) =>
            /\ calls[i].requests = 0
            /\ calls[i].slept = 0
            /\ calls[i].writes = 0
            /\ cache[calls[i].cache_path] = calls[i].file
            /\ calls[i].returned \/ ReadingCache(i)
            /\ calls[i].returned =>
                  \A d \in PayloadsWritten(calls[i].file.text, calls[i].cache_path) :
                      calls[i].result = Ok(d)

\* under the trial tier a call returned the value of a well-formed entry
C4_Witness ==
    /\ access_level = "trial"
    /\ \E i \in DOMAIN calls :
          /\ WellFormedFile(calls[i])
          /\ IsStatsCall(calls[i])
          /\ calls[i].returned
          /\ calls[i].result.ok

\* C7: under the "trial" tier every fetch_data call that misses the cache
\* sends its request no earlier than 2 seconds after it started, and no two
\* requests of the run are sent less than 2 seconds apart.
C7_TrialDelayBeforeEachRequest ==
    access_level = "trial" =>
        \A i \in DOMAIN calls :
            calls[i].requests > 0 =>
                /\ calls[i].slept = 2
                /\ calls[i].sent_at >= calls[i].started + 2
                /\ \A j \in 1..(i - 1) :
                      calls[j].requests > 0 =>
                          calls[i].sent_at - calls[j].sent_at >= 2

\* under the trial tier three requests were sent
C7_Witness ==
    /\ access_level = "trial"
    /\ Cardinality({i \in DOMAIN calls : calls[i].requests > 0}) >= 3

WriteFailed(call) == call.disk \in {"failed", "failed_truncated"}

\* C8: if the request succeeds and decodes but writing the payload to the
\* cache fails, fetch_data returns an error, not the decoded value.
C8_FailedCacheWriteIsAnError ==
    \A i \in DOMAIN calls :
        WriteFailed(calls[i]) =>
            /\ calls[i].returned
            /\ ~calls[i].result.ok
            /\ calls[i].result.err = "Failed to write the cache file"

\* a request was answered with a payload and the cache write then failed
C8_Witness ==
    \E i \in DOMAIN calls :
        /\ WriteFailed(calls[i])
        /\ calls[i].requests = 1
        /\ calls[i].response.status = 200
        /\ calls[i].response.body.json
        /\ calls[i].returned

\* the call found a file at its cache path that cannot be read or decoded
BrokenFile(call) == call.file.kind # "absent" /\ ~WellFormedFile(call)

CacheReadErrors ==
    {"Failed to read the cache file", "Failed to deserialize JSON from cache"}

\* C9: if the cache file exists but cannot be read or decoded, fetch_data
\* returns a cache-read error: it makes no network call and leaves the cache
\* entry as it was.
C9_BrokenCacheEntryIsAnError ==
    \A i \in DOMAIN calls :
        BrokenFile(calls[i]) =>
            /\ calls[i].requests = 0
            /\ calls[i].writes = 0
            /\ cache[calls[i].cache_path] = calls[i].file
            /\ calls[i].returned \/ ReadingCache(i)
            /\ calls[i].returned =>
                  /\ ~calls[i].result.ok
                  /\ calls[i].result.err \in CacheReadErrors

\* after a payload was fetched and cached, the call for a competitor's
\* statistics returned after finding an undecodable file
C9_Witness ==
    \E i \in DOMAIN calls :
        /\ calls[i].file = TextFile(Garbage)
        /\ IsStatsCall(calls[i])
        /\ calls[i].returned
        /\ \E j \in 1..(i - 1) : calls[j].disk = "written"

\* the call sent a request that the transport failed, that was answered with
\* a non-success status, or whose body does not decode
BadResponse(call) ==
    /\ call.requests > 0
    /\ \/ ~call.response.sent
       \/ call.response.status < 200
       \/ call.response.status > 299
       \/ PayloadsWritten(call.response.body, call.cache_path) = {}

\* C10: a transport failure, a non-success status or a decode failure makes
\* fetch_data return an error after its one request, without writing the
\* cache; a cache entry appears only during a call for its key whose one
\* request was answered successfully with a body that decodes.
C10_FailedRequestNoRetryNoWrite ==
    [][/\ \A i \in DOMAIN calls' :
             BadResponse(calls'[i]) =>
                /\ calls'[i].requests = 1
                /\ calls'[i].returned
                /\ ~calls'[i].result.ok
                /\ calls'[i].writes = 0
                /\ cache'[calls'[i].cache_path] = calls'[i].file
       /\ \A path \in CachePaths :
             cache[path].kind = "absent" /\ cache'[path].kind # "absent" =>
                /\ calls # <<>>
                /\ calls[Len(calls)].cache_path = path
                /\ calls[Len(calls)].requests = 1
                /\ ~BadResponse(calls[Len(calls)])]_vars

\* after a payload was fetched and cached, a call ended on a non-success
\* status whose body would decode
C10_Witness ==
    \E i \in DOMAIN calls :
        /\ calls[i].returned
        /\ calls[i].response.sent
        /\ calls[i].response.status = 404
        /\ calls[i].response.body.json
        /\ \E j \in 1..(i - 1) : calls[j].disk = "written"

\* C11: every fetch_data call makes at most one network call and at most one
\* cache write, and writes the cache only after a cache miss; so within one
\* run each cache key is written at most once.
C11_OneRequestOneWritePerCall ==
    /\ \A i \in DOMAIN calls :
          /\ calls[i].requests <= 1
          /\ calls[i].writes <= 1
          /\ calls[i].writes > 0 =>
                calls[i].file.kind = "absent" /\ calls[i].requests = 1
    /\ \A path \in CachePaths :
          Cardinality({i \in DOMAIN calls :
                          calls[i].cache_path = path /\ calls[i].writes > 0}) <= 1

\* the same cache key was fetched twice in the run: written by the first
\* call, found by the second
C11_Witness ==
    \E i, j \in DOMAIN calls :
        /\ i < j
        /\ calls[i].cache_path = calls[j].cache_path
        /\ calls[i].disk = "written"
        /\ calls[j].returned
        /\ calls[j].writes = 0

\* the seasons were fetched and "Premier League 23/24" is not among them
SeasonMissing ==
    /\ calls # <<>>
    /\ calls[1].cache_path = SeasonsPath
    /\ calls[1].returned
    /\ calls[1].result.ok
    /\ \A i \in DOMAIN calls[1].result.value.body :
          calls[1].result.value.body[i].name # "Premier League 23/24"

\* C12: if the fetched seasons do not contain "Premier League 23/24", the
\* run aborts with an error at once: no further fetch or network call is
\* made, no player is accumulated and no leaderboard is printed.
C12_MissingSeasonAborts ==
    SeasonMissing /\ pc # "await_seasons" =>
        /\ pc = "exit"
        /\ exit_status \in {"error", "panic"}
        /\ stderr = "Season not found"
        /\ Len(calls) = 1
        /\ players = <<>>
        /\ top_scorers = <<>>
        /\ top_assists = <<>>
        /\ stdout = <<>>

\* the seasons came from the network without the season, and main has ended
C12_Witness ==
    /\ SeasonMissing
    /\ calls[1].requests = 1
    /\ pc = "exit"

\* C13: a run over the cache a successful run left behind makes no network
\* call, and ends with the index and the output that run ended with.
C13_SecondRunFromCacheOnly ==
    run > 1 =>
        /\ \A i \in DOMAIN calls : calls[i].requests = 0 /\ calls[i].writes = 0
        /\ fpc \notin {"request_data", "send", "write_to_cache"}
        /\ pc = "exit" =>
              /\ exit_status = "ok"
              /\ top_scorers = first_run.top_scorers
              /\ top_assists = first_run.top_assists
              /\ stdout = first_run.stdout

C13_Witness ==
    /\ run > 1
    /\ pc = "exit"
    /\ first_run.requests >= 3
    /\ Len(calls) >= 3
    /\ Len(top_scorers) >= 2

\* an add_player step of SpecDB for the id `id`
AddedPlayer(id) ==
    /\ batch' = batch + 1
    /\ id \in DOMAIN latest'
    /\ \A k \in DOMAIN latest' \ {id} : k \in DOMAIN latest /\ latest'[k] = latest[k]

\* C14: add_player stores the player it is given under the player's id, as
\* given; every other player stays as it was, and for an id already present
\* the number of players stays; so the collection always holds, for each id
\* added so far, exactly the player added last.
C14_AddPlayerOverwrites ==
    [][ /\ \A id \in DOMAIN latest' :
              AddedPlayer(id) =>
                  /\ id \in DOMAIN players'
                  /\ players'[id] = latest'[id]
                  /\ \A k \in DOMAIN players \ {id} :
                        k \in DOMAIN players' /\ players'[k] = players[k]
                  /\ DOMAIN players' = DOMAIN players \cup {id}
                  /\ id \in DOMAIN players =>
                        Cardinality(DOMAIN players') = Cardinality(DOMAIN players)
        /\ DOMAIN players' = DOMAIN latest'
        /\ \A id \in DOMAIN players' : players'[id] = latest'[id] ]_vars

\* a player of the index was added again with other statistics: the index,
\* not yet rebuilt, lists the assists out of order
C14_Witness ==
    /\ batch > 0
    /\ Cardinality(DOMAIN players) >= 3
    /\ \E i, j \in DOMAIN top_assists :
          /\ i < j
          /\ assists_of(top_assists[i]) < assists_of(top_assists[j])

\* the type main asks fetch_data for at a cache path
TypeAt(path) ==
    IF path = SeasonsPath THEN "ApiCompetitionSeasons"
    ELSE IF path = CompetitorsPath THEN "ApiSeasonCompetitors"
    ELSE "ApiSeasonCompetitorStatistics"

\* C15: whatever the cache directory holds, a value written to a path is
\* read back from that path as Some of the same value, and a path with no
\* file is read as None; so every value a call has written is what the
\* cache gives from then on.
C15_CacheRoundTrip ==
    /\ \A path \in CachePaths :
          /\ \A v \in PayloadsOf(path) :
                LET w == write_to_cache(cache, path, v, "written") IN
                /\ w.result = Ok(NoValue)
                /\ read_from_cache(w.files, TypeAt(path), path) = Ok(<<v>>)
                /\ \A other \in CachePaths \ {path} : w.files[other] = cache[other]
          /\ cache[path] = AbsentFile =>
                read_from_cache(cache, TypeAt(path), path) = Ok(<<>>)
    /\ \A i \in DOMAIN calls :
          calls[i].disk = "written" /\ calls[i].returned =>
              read_from_cache(cache, TypeAt(calls[i].cache_path),
                              calls[i].cache_path) = Ok(<<calls[i].result.value>>)

\* the seasons, with their dates, were written by the run before and have
\* been read back by this one
C15_Witness ==
    /\ run > 1
    /\ SeasonsPath \in first_run.written
    /\ calls # <<>>
    /\ calls[1].returned
    /\ calls[1].file.kind = "file"
    /\ \E i \in DOMAIN calls[1].result.value.body :
          calls[1].result.value.body[i].start_date = NaiveDate(2023, 8, 11)

\* an index_players step of SpecDB
IndexStep ==
    /\ dbpc = "build"
    /\ dbpc' = "build"
    /\ batch' = 0
    /\ players' = players

\* C16: what index_players leaves in top_scorers and top_assists is fixed by
\* the players of the collection alone: it is the same for every order the
\* HashMap may iterate in, whatever the lists held before; and with no
\* add_player since the index was last built, it leaves the lists as they are.
C16_IndexIdempotentDeterministic ==
    [][ IndexStep =>
          /\ \A order \in hashmap_iter_orders(DOMAIN players) :
                /\ top_scorers' = index_top_scorers(players, order)
                /\ top_assists' = index_top_assists(players, order)
          /\ IndexFresh =>
                top_scorers' = top_scorers /\ top_assists' = top_assists ]_vars

\* the index is built over players that tie and players that do not, and
\* the two lists differ
C16_Witness ==
    /\ IndexFresh
    /\ dbpc = "build"
    /\ Cardinality(DOMAIN players) >= 3
    /\ top_scorers # top_assists
    /\ \E i \in DOMAIN top_scorers :
          \E j \in DOMAIN top_scorers :
              /\ i < j
              /\ goals_of(top_scorers[i]) = goals_of(top_scorers[j])
              /\ top_assists[1] # top_scorers[1]

\* the list ranks the whole collection by the metric
RanksCollection(list, metric(_)) ==
    /\ SortedByMetricThenId(list, metric)
    /\ TopOfCollection(list, metric)

\* the lines printed are the entries of the list, with the players' names
\* and values as the collection has them
PrintedFrom(out, list, metric(_)) ==
    /\ Len(out.lines) = Len(list)
    /\ \A i \in DOMAIN list :
          /\ out.lines[i].name = players[list[i]].name
          /\ out.lines[i].value = metric(list[i])

AtPrinting ==
    \/ pc \in {"print_top_scorers", "print_top_assists"}
    \/ pc = "exit" /\ exit_status = "ok"

\* C17: when main reaches the printing, and until it has printed, each list
\* of the index ranks the whole player collection as it then is, and what is
\* printed is those lists; this is so too when the last competitors listed
\* no players.
C17_IndexFreshAtPrint ==
    AtPrinting =>
        /\ RanksCollection(top_scorers, goals_of)
        /\ RanksCollection(top_assists, assists_of)
        /\ ~panicked
        /\ pc # "print_top_scorers" =>
              stdout # <<>> /\ PrintedFrom(stdout[1], top_scorers, goals_of)
        /\ pc = "exit" =>
              Len(stdout) = 2 /\ PrintedFrom(stdout[2], top_assists, assists_of)

\* the run printed a collection of several players after the last
\* competitor listed none
C17_Witness ==
    /\ pc = "exit"
    /\ exit_status = "ok"
    /\ Len(competitors) >= 2
    /\ calls[Len(calls)].result.value.body = <<>>
    /\ Cardinality(DOMAIN players) >= 2
    /\ Len(stdout[1].lines) >= 2

\* every id of the list is a key of the collection, and is in the list once
KeysListedOnce(list) ==
    /\ \A i \in DOMAIN list : list[i] \in DOMAIN players
    /\ \A i, j \in DOMAIN list : list[i] = list[j] => i = j

\* C18: whatever add_player and index_players calls were made, every id in
\* top_scorers and in top_assists is a key of the player collection and is
\* listed once, and neither print_top_scorers nor print_top_assists has
\* failed to look an id up.
C18_IndexedIdsAreKeys ==
    /\ KeysListedOnce(top_scorers)
    /\ KeysListedOnce(top_assists)
    /\ ~panicked
    /\ dbpc \in {"printed_scorers", "done"} =>
          stdout # <<>> /\ Len(stdout[1].lines) = Len(top_scorers)
    /\ dbpc = "done" =>
          Len(stdout) = 2 /\ Len(stdout[2].lines) = Len(top_assists)

\* both lists were printed in full from an index that players were added
\* after
C18_Witness ==
    /\ dbpc = "done"
    /\ batch > 0
    /\ Len(top_scorers) = TopLimit
    /\ Cardinality(DOMAIN players) > TopLimit
    /\ Len(stdout[2].lines) = TopLimit

\* the players the statistics fetched in this run have listed
Observed ==
    UNION {Range(calls[i].result.value.body) :
              i \in {j \in DOMAIN calls :
                        /\ IsStatsCall(calls[j])
                        /\ calls[j].returned
                        /\ calls[j].result.ok}}

\* C19: a player the statistics list with assists and no goals is in
\* top_assists when the printing is reached, provided the players observed
\* are few enough for every one of them to be within the cutoff.
C19_AssistsIndependentOfGoals ==
    AtPrinting /\ Cardinality({p.id : p \in Observed}) <= TopLimit =>
        \A p \in Observed :
            p.statistics.assists > 0 /\ p.statistics.goals_scored = 0 =>
                p.id \in Range(top_assists)

=============================================================================
